---- MODULE Spec2Model ----
(***************************************************************************)
(* mpgitleaks: fan-out of a gitleaks scan over many repositories.          *)
(* Model of src/main/python/mpgitleaks/mpgitleaks.py: the main flow        *)
(* (get_repos, match_repos, execute_scans, display_results), the two       *)
(* worker functions scan_repo and scan_repo_queue run as parallel          *)
(* processes, the shared repo queue and the clone directories they share.  *)
(*                                                                         *)
(* Python strings are sequences of one-character strings, so that split,   *)
(* replace, zfill and the f-strings are computed as the code computes      *)
(* them.  A dict is a sequence of <<key, value>> pairs with distinct keys, *)
(* in insertion order.                                                     *)
(***************************************************************************)
EXTENDS Integers, Sequences, FiniteSets, TLC

\* ------------------------------------------------------------------ bounds
\* The source fixes MAX_PROCESSES to 35 (line 19).  The code uses it only in
\* `len(repos) <= MAX_PROCESSES` and `range(MAX_PROCESSES)`, so the model
\* checks every cap in 1..MaxCap.
MaxCap == 2
\* Longest list of repositories handed to the run.
MaxRepos == 3
\* Longest list of repositories the API returns for a user or an org.
MaxApiRepos == 1

\* --------------------------------------------------------- python strings
RECURSIVE Split(_, _)
\* str.split(sep) for a one-character separator
Split(s, sep) ==
    IF \A i \in 1..Len(s) : s[i] # sep
    THEN <<s>>
    ELSE LET i == CHOOSE k \in 1..Len(s) :
                      s[k] = sep /\ \A j \in 1..(k - 1) : s[j] # sep
         IN  <<SubSeq(s, 1, i - 1)>> \o Split(SubSeq(s, i + 1, Len(s)), sep)

RECURSIVE Replace(_, _, _)
\* str.replace(old, new) for a non-empty old: every non-overlapping
\* occurrence, left to right
Replace(s, old, new) ==
    IF Len(s) < Len(old) THEN s
    ELSE IF SubSeq(s, 1, Len(old)) = old
         THEN new \o Replace(SubSeq(s, Len(old) + 1, Len(s)), old, new)
         ELSE <<s[1]>> \o Replace(Tail(s), old, new)

Digit(d) == <<"0", "1", "2", "3", "4", "5", "6", "7", "8", "9">>[d + 1]

RECURSIVE Str(_)
\* str(n) for a natural number
Str(n) == IF n < 10 THEN <<Digit(n)>> ELSE Str(n \div 10) \o <<Digit(n % 10)>>

RECURSIVE Zfill(_, _)
\* str.zfill(width) of a string of digits
Zfill(s, width) == IF Len(s) >= width THEN s ELSE Zfill(<<"0">> \o s, width)

StartsWith(s, p) == Len(p) <= Len(s) /\ SubSeq(s, 1, Len(p)) = p

\* ------------------------------------------------------------ python dict
DictKeys(d) == {d[i][1] : i \in 1..Len(d)}

DictHas(d, k) == \E i \in 1..Len(d) : d[i][1] = k

DictGet(d, k) == d[CHOOSE i \in 1..Len(d) : d[i][1] = k][2]

\* d[k] = v: an existing key keeps its position, a new key is appended
DictSet(d, k, v) ==
    IF DictHas(d, k)
    THEN [i \in 1..Len(d) |-> IF d[i][1] = k THEN <<k, v>> ELSE d[i]]
    ELSE Append(d, <<k, v>>)

RECURSIVE DictUpdate(_, _)
\* d.update(e)
DictUpdate(d, e) ==
    IF e = <<>> THEN d
    ELSE DictUpdate(DictSet(d, Head(e)[1], Head(e)[2]), Tail(e))

\* The two kinds of scan result value: False, or a report path (a string).
PyFalse == [type |-> "bool", s |-> <<>>]
PyStr(s) == [type |-> "str", s |-> s]
\* Python truthiness: False is falsy, a non-empty string is truthy
Truthy(v) == v.type = "str" /\ Len(v.s) > 0

\* -------------------------------------------------------- the environment
\* os.getenv('PWD', HOME): the run's working directory, "/w"
HomeDir == <<"/", "w">>

\* The addresses a repos file can hold: "g:o/a-b.git", "g:o-a/b.git" and
\* "g:o/c.git" (owners and names may hold '-')
Url(owner, name) ==
    <<"g", ":">> \o owner \o <<"/">> \o name \o <<".", "g", "i", "t">>
SshUrls == {Url(<<"o">>, <<"a", "-", "b">>), Url(<<"o", "-", "a">>, <<"b">>),
            Url(<<"o">>, <<"c">>)}

\* The branch listing of each repository, as the API returns it
\* (a list of {'name': ...}), in listing order.
BranchListing(full_name) ==
    IF full_name = <<"o", "/", "a", "-", "b">>
    THEN <<[name |-> <<"m">>], [name |-> <<"d">>]>>
    ELSE IF full_name = <<"o", "-", "a", "/", "b">> THEN <<[name |-> <<"m">>]>>
    ELSE <<>>

\* All lists of at most MaxRepos addresses
UrlLists == UNION {[1..n -> SshUrls] : n \in 0..MaxRepos}

\* The lists of addresses of the repos the API returns
ApiUrlLists == UNION {[1..n -> SshUrls] : n \in 0..MaxApiRepos}

\* The stripped lines of a repos file: addresses, and blank lines
FileLines == SshUrls \cup {<<>>}
FileLineLists == UNION {[1..n -> FileLines] : n \in 0..MaxRepos}

\* The repos files without a blank line and without a repeated address
DistinctFileLineLists ==
    {u \in UrlLists : \A j, k \in 1..Len(u) : j # k => u[j] # u[k]}

\* --file, the login of the authenticated user, --org
Filename == <<"r">>
UserLogin == <<"u">>
OrgName == <<"g">>

\* which of --user, --org and --file names the repos of the run
Sources == {"file", "user", "org"}
FileSource == {"file"}

\* where the API raises while the repos are listed: nowhere, at
\* client.get('/user'), or at the listing of the repos
ApiOutcomes == {"ok", "user raises", "repos raises"}

\* Return codes of the external commands
CheckoutCodes == {0, 128}
ScanCodes == {0, 1}
\* git clone: success leaves the clone directory; a failure leaves none, or
\* leaves one ("clone succeeded, but checkout failed")
CloneOutcomes == {[rc |-> 0, dir |-> TRUE], [rc |-> 128, dir |-> FALSE],
                  [rc |-> 128, dir |-> TRUE]}

\* Patterns of --include / --exclude: '' (absent) or a literal prefix
Patterns == {<<>>, <<"o", "/", "a">>, <<"o", "/">>}

\* neither --include nor --exclude
NoPatterns == {<<>>}

\* Patterns given to match_repos called on its own: also an anchored
\* pattern and one no full name of SshUrls starts with
MatchPatterns == Patterns \cup {<<"^", "o", "/", "a">>, <<"b">>}

\* Addresses given to get_repo_data called on its own: also "g:o/a.gits.git"
\* ('.git' inside the name), "g:o/p/a" (a nested path, no suffix) and "go/a"
\* (no ':')
Addresses ==
    SshUrls \cup {Url(<<"o">>, <<"a", ".", "g", "i", "t", "s">>),
                  <<"g", ":", "o", "/", "p", "/", "a">>,
                  <<"g", "o", "/", "a">>}

AddressLists == UNION {[1..n -> Addresses] : n \in 0..MaxRepos}

\* ------------------------------------------------------- pure functions
\* get_repo_data raises IndexError on an address without ':'
GetRepoDataRaises(ssh_urls) ==
    \E i \in 1..Len(ssh_urls) : Len(Split(ssh_urls[i], ":")) < 2

\* get_repo_data(ssh_urls): owner is the first '/'-segment of the text after
\* the first ':', name the last '/'-segment with every '.git' removed
get_repo_data(ssh_urls) ==
    [i \in 1..Len(ssh_urls) |->
        LET ssh_url == ssh_urls[i]
            owner == Split(Split(ssh_url, ":")[2], "/")[1]
            parts == Split(ssh_url, "/")
            name == Replace(parts[Len(parts)], <<".", "g", "i", "t">>, <<>>)
        IN  [ssh_url |-> ssh_url, full_name |-> owner \o <<"/">> \o name]]

\* re.match(pattern, name) for a pattern of literal characters after an
\* optional '^': re.match matches at the start of the name only, so the name
\* starts with the literal characters
ReMatch(pattern, name) ==
    IF pattern # <<>> /\ Head(pattern) = "^"
    THEN StartsWith(name, Tail(pattern))
    ELSE StartsWith(name, pattern)

\* as match_criteria, with match_include = False as the default
match_criteria_IncludeNone(name, include, exclude) ==
    [match_include |-> IF include # <<>> THEN ReMatch(include, name) ELSE FALSE,
     match_exclude |-> IF exclude # <<>> THEN ReMatch(exclude, name) ELSE FALSE]

\* match_criteria(name, include, exclude): the pair (match_include,
\* match_exclude); an empty pattern is not applied
match_criteria(name, include, exclude) ==
    [match_include |-> IF include # <<>> THEN ReMatch(include, name) ELSE TRUE,
     match_exclude |-> IF exclude # <<>> THEN ReMatch(exclude, name) ELSE FALSE]

RECURSIVE match_repos(_, _, _)
\* match_repos(repos, include, exclude): the kept repos, in input order
match_repos(repos, include, exclude) ==
    IF repos = <<>> THEN <<>>
    ELSE LET m == match_criteria(Head(repos).full_name, include, exclude)
             rest == match_repos(Tail(repos), include, exclude)
         IN  IF m.match_include /\ ~m.match_exclude
             THEN <<Head(repos)>> \o rest ELSE rest

\* create_dirs(): the three working directories under the working directory
ScansDir == HomeDir \o <<"/", "s", "c", "a", "n", "s">>
ClonesDir == ScansDir \o <<"/", "c", "l", "o", "n", "e", "s">>
ReportsDir == ScansDir \o <<"/", "r", "e", "p", "o", "r", "t", "s">>

\* repo_name = repo_full_name.replace('/', '-')
RepoName(full_name) == Replace(full_name, <<"/">>, <<"-">>)

\* clone_dir = f"{dirs['clones']}/{repo_name}"
CloneDir(full_name) == ClonesDir \o <<"/">> \o RepoName(full_name)

\* report = f"{dirs['reports']}/{repo_name}-{safe_branch_name}.json"
Report(full_name, branch_name) ==
    ReportsDir \o <<"/">> \o RepoName(full_name) \o <<"-">>
        \o Replace(branch_name, <<"/">>, <<"-">>) \o <<".", "j", "s", "o", "n">>

\* as Key, without the repository
Key_BranchOnly(full_name, branch_name) == branch_name

\* the result key f'{repo_full_name}:{branch_name}'
Key(full_name, branch_name) == full_name \o <<":">> \o branch_name

\* as GetClientRaises, without the check of the token
GetClientRaises_Never(token) == FALSE

\* get_client() raises ValueError when GH_TOKEN_PSW is not set
GetClientRaises(token) == ~token

\* as ExecuteCommand, with subprocess.run(..., check=True): a nonzero return
\* code raises
ExecuteCommand_Check(cwd_exists, rc) ==
    IF ~cwd_exists THEN [raised |-> "FileNotFoundError", returncode |-> rc]
    ELSE IF rc # 0 THEN [raised |-> "CalledProcessError", returncode |-> rc]
    ELSE [raised |-> "", returncode |-> rc]

\* execute_command(command, cwd=...): subprocess.run raises FileNotFoundError
\* when cwd does not exist; otherwise the return code is returned, whatever
\* its value
ExecuteCommand(cwd_exists, rc) ==
    IF cwd_exists THEN [raised |-> "", returncode |-> rc]
    ELSE [raised |-> "FileNotFoundError", returncode |-> rc]

\* as ScanValue, with the two outcomes exchanged
ScanValue_Inverted(exit_code, report) ==
    IF exit_code = 0 THEN PyStr(report) ELSE PyFalse

\* False if exit_code == 0 else report
ScanValue(exit_code, report) == IF exit_code = 0 THEN PyFalse ELSE PyStr(report)

\* as QueueGet, but the item stays in the queue
QueueGet_Peek(q) == [item |-> Head(q), rest |-> q]

\* repo_queue.get(timeout=10) on a non-empty queue: the head is removed
QueueGet(q) == [item |-> Head(q), rest |-> Tail(q)]

\* as get_results, with `results = process['result']` for the update
get_results_Last(pd) == IF pd = <<>> THEN <<>> ELSE pd[Len(pd)].result

\* as get_results, returning inside the loop
get_results_First(pd) == IF pd = <<>> THEN <<>> ELSE pd[1].result

RECURSIVE get_results(_)
\* get_results(process_data): every process's result, merged with update
get_results(pd) ==
    IF pd = <<>> THEN <<>>
    ELSE DictUpdate(get_results(SubSeq(pd, 1, Len(pd) - 1)), pd[Len(pd)].result)

\* as ProcessDataQueue, with range(MAX_PROCESSES + 1)
ProcessDataQueue_OneMore(cap) ==
    [k \in 1..(cap + 1) |-> [offset |-> Zfill(Str(k - 1), Len(Str(cap))),
                             repo_queue |-> "repo_queue"]]

\* as QueuePutAll, the last repo left out
QueuePutAll_ButLast(q, repos) == q \o SubSeq(repos, 1, Len(repos) - 1)

\* get_process_data_queue: `for repo in repos: repo_queue.put(repo)`
QueuePutAll(q, repos) == q \o repos

\* get_process_data_queue: one item per offset in range(MAX_PROCESSES), each
\* holding the zero-padded offset and the handle of the one shared queue
ProcessDataQueue(cap) ==
    [k \in 1..cap |-> [offset |-> Zfill(Str(k - 1), Len(Str(cap))),
                       repo_queue |-> "repo_queue"]]

\* ------------------------------------------------------------------ state
VARIABLES
    MAX_PROCESSES,  \* the worker cap
    env_token,      \* GH_TOKEN_PSW is set
    pc,             \* where main is
    matched_repos,  \* main's matched_repos
    function,       \* the worker function execute_scans chose
    process_data,   \* the work assignments, later with each one's result
    repo_queue,     \* the shared queue's content
    wk,             \* the worker processes: position and locals of each
    clones,         \* the clone directories that exist
    has_results,    \* execute_scans has returned
    results,        \* the map execute_scans returned
    output,         \* what main has printed
    exit_status,    \* the process's exit status, once pc = "exited"
    inserted,       \* history: the repos put into the queue, in order
    removed,        \* history: the repos workers got from the queue, in order
    scanned,        \* history: the scans run, as (full_name, branch, exit code)
    clone_failed,   \* history: the repos whose clone returned nonzero
    precondition,   \* history: the precondition that failed, if one did
    call,           \* a function called on its own: its name and arguments
    returned        \* what that call returned or raised

vars == <<MAX_PROCESSES, env_token, pc, matched_repos, function, process_data,
          repo_queue, wk, clones, has_results, results, output, exit_status,
          inserted, removed, scanned, clone_failed, precondition, call,
          returned>>

NoRepo == [ssh_url |-> <<>>, full_name |-> <<>>]

\* a process before its function has run
NewWorker ==
    [pc |-> "start", repo |-> NoRepo, branches |-> <<>>, i |-> 1,
     result |-> <<>>, repo_count |-> 0, zfill |-> 0, exit_code |-> 0,
     error |-> "", log |-> <<>>]

Workers == DOMAIN wk

Terminated(w) == wk[w].pc \in {"done", "raised"}

\* no function is called on its own in a run of main
NoCall == [fn |-> "", ssh_urls |-> <<>>, repos |-> <<>>, include |-> <<>>,
           exclude |-> <<>>]

NotReturned == [done |-> FALSE, raised |-> "", value |-> <<>>]

Init ==
    /\ call = NoCall
    /\ returned = NotReturned
    /\ MAX_PROCESSES \in 1..MaxCap
    /\ env_token \in BOOLEAN
    /\ pc = "main"
    /\ matched_repos = <<>>
    /\ function = ""
    /\ process_data = <<>>
    /\ repo_queue = <<>>
    /\ wk = <<>>
    /\ clones = {}
    /\ has_results = FALSE
    /\ results = <<>>
    /\ output = <<>>
    /\ exit_status = 0
    /\ inserted = <<>>
    /\ removed = <<>>
    /\ scanned = {}
    /\ clone_failed = {}
    /\ precondition = ""

\* ------------------------------------------------------------------- main
\* A printed line: its text, with the values of its placeholders (for a
\* failed scan, the key and the relative report path).
Line(text, scan, relative) == [text |-> text, scan |-> scan, relative |-> relative]

\* sys.exit(-1): the exit status is the low byte of -1
ErrorExitStatus == (-1) % 256

\* main's `except Exception`: print 'Error: ...' and sys.exit(-1), after
\* the lines echoed before the exception was raised
MainExcept(echoed, message, arg) ==
    /\ output' = output \o echoed \o <<Line("Error: " \o message, arg, <<>>)>>
    /\ exit_status' = ErrorExitStatus
    /\ pc' = "exited"

\* what a listing of repos gives: the lines echoed, the message and argument
\* of the exception raised ("" when none is) and the repos returned
Listed(echoed, raised, arg, repos) ==
    [echoed |-> echoed, raised |-> raised, arg |-> arg, repos |-> repos]

\* get_file_repos(filename)
get_file_repos(filename, readable, ssh_urls) ==
    LET getting == Line("Getting repos from file '{filename}' ...", filename, <<>>)
    IN  IF ~readable
        THEN Listed(<<getting>>,
                    "the default repos file '{filename}' cannot be read",
                    filename, <<>>)
        ELSE IF GetRepoDataRaises(ssh_urls)
        THEN Listed(<<getting>>, "list index out of range", <<>>, <<>>)
        ELSE Listed(<<getting,
                      Line("A total of {len(repos)} reops were read in from '{filename}'",
                           Str(Len(ssh_urls)), filename)>>,
                    "", <<>>, get_repo_data(ssh_urls))

\* get_user_repos(client)
get_user_repos(api, user, repos) ==
    LET getting == Line("Getting repos for the authenticated user '{user}' ...",
                        user, <<>>)
    IN  IF api = "user raises"
        THEN Listed(<<>>, "client.get('/user') raised", <<>>, <<>>)
        ELSE IF api = "repos raises"
        THEN Listed(<<getting>>, "client.get('/user/repos') raised", <<>>, <<>>)
        ELSE Listed(<<getting,
                      Line("A total of {len(repos)} reops were retrieved from authenticated user '{user}'",
                           Str(Len(repos)), user)>>,
                    "", <<>>, repos)

\* get_org_repos(client, org)
get_org_repos(api, org, repos) ==
    LET getting == Line("Getting repos for org: '{org}' ...", org, <<>>)
    IN  IF api # "ok"
        THEN Listed(<<getting>>, "client.get('/orgs/{org}/repos') raised", org, <<>>)
        ELSE Listed(<<getting,
                      Line("A total of {len(repos)} reops were retrieved from organization '{org}'",
                           Str(Len(repos)), org)>>,
                    "", <<>>, repos)

\* get_repos(filename, user, org), after its get_client()
get_repos(source, readable, ssh_urls, api, api_repos) ==
    IF source = "user" THEN get_user_repos(api, UserLogin, api_repos)
    ELSE IF source = "org" THEN get_org_repos(api, OrgName, api_repos)
    ELSE get_file_repos(Filename, readable, ssh_urls)

\* the line match_repos echoes before it returns
MatchReposEcho(matched) ==
    Line("A total of {len(matched_repos)} repos will be processed per the inclusion/exclusion criteria",
         Str(Len(matched)), <<>>)

\* The first lines of main's try block: get_repos (get_client, then the
\* repos of the user, of the org or of the file, each echoing its lines) and,
\* with --include or --exclude, match_repos and its line; the arguments and
\* the repos file are drawn from the given sets.
GetReposFrom(sources, file_line_lists, patterns) ==
    /\ pc = "main"
    /\ \E source \in sources, readable \in BOOLEAN,
          ssh_urls \in file_line_lists, api \in ApiOutcomes,
          api_urls \in ApiUrlLists,
          include \in patterns, exclude \in patterns :
          IF GetClientRaises(env_token)
          THEN /\ MainExcept(<<>>,
                     "GH_TOKEN_PSW environment variable must be set to token", <<>>)
               /\ precondition' = "credential"
               /\ UNCHANGED matched_repos
          ELSE LET r == get_repos(source, readable, ssh_urls, api,
                                  get_repo_data(api_urls))
               IN  IF r.raised # ""
                   THEN /\ MainExcept(r.echoed, r.raised, r.arg)
                        /\ precondition' = IF source = "file" /\ ~readable
                                           THEN "file" ELSE precondition
                        /\ UNCHANGED matched_repos
                   ELSE LET filtered == include # <<>> \/ exclude # <<>>
                            matched == IF filtered
                                       THEN match_repos(r.repos, include, exclude)
                                       ELSE r.repos
                        IN  /\ matched_repos' = matched
                            /\ output' = output \o r.echoed \o
                                   (IF filtered THEN <<MatchReposEcho(matched)>>
                                    ELSE <<>>)
                            /\ pc' = "execute_scans"
                            /\ UNCHANGED <<exit_status, precondition>>
    /\ UNCHANGED <<call, returned, MAX_PROCESSES, env_token, function, process_data, repo_queue,
                   wk, clones, has_results, results, inserted, removed, scanned,
                   clone_failed>>

\* main with any of --file, --user, --org, any repos file and any patterns
GetRepos == GetReposFrom(Sources, FileLineLists, Patterns)

\* main with --file alone, on a repos file of distinct addresses
GetReposOfFile == GetReposFrom(FileSource, DistinctFileLineLists, NoPatterns)

\* as ChooseFunction, with `<` for `<=`
ChooseFunction_Strict(n, cap) == IF n < cap THEN "scan_repo" ELSE "scan_repo_queue"

\* `len(repos) <= MAX_PROCESSES`: the worker function of the whole run
ChooseFunction(n, cap) == IF n <= cap THEN "scan_repo" ELSE "scan_repo_queue"

\* execute_scans up to the start of the processes: the check for no repos,
\* the choice of the function and of process_data (for scan_repo_queue: the
\* queue filled with every repo, then one item per offset), and MP4ansi
\* starting one process per item of process_data.
ExecuteScans ==
    /\ pc = "execute_scans"
    /\ IF matched_repos = <<>>
       THEN /\ MainExcept(<<>>, "no repos to process", <<>>)
            /\ precondition' = "empty"
            /\ UNCHANGED <<function, process_data, repo_queue, wk, inserted>>
       ELSE LET f == ChooseFunction(Len(matched_repos), MAX_PROCESSES)
                pd == IF f = "scan_repo" THEN matched_repos
                      ELSE ProcessDataQueue(MAX_PROCESSES)
            IN  /\ function' = f
                /\ process_data' = pd
                /\ repo_queue' = IF f = "scan_repo" THEN repo_queue
                                 ELSE QueuePutAll(repo_queue, matched_repos)
                /\ inserted' = IF f = "scan_repo" THEN inserted
                               ELSE QueuePutAll(inserted, matched_repos)
                /\ wk' = [w \in 1..Len(pd) |-> NewWorker]
                /\ pc' = "mp_execute"
                /\ UNCHANGED <<output, exit_status, precondition>>
    /\ UNCHANGED <<call, returned, MAX_PROCESSES, env_token, matched_repos, clones, has_results,
                   results, removed, scanned, clone_failed>>

\* mp4ansi.execute(raise_if_error=True) once every process has ended: each
\* item of process_data gets its process's result (the returned map, or the
\* exception the function raised), and an exception among them is raised.
\* as RaiseIfError, with raise_if_error=False
RaiseIfError_Never(pd) == FALSE

RaiseIfError(pd) == \E k \in 1..Len(pd) : pd[k].error # ""

MP4ansiExecute ==
    /\ pc = "mp_execute"
    /\ \A w \in Workers : Terminated(w)
    /\ LET pd == [k \in 1..Len(process_data) |->
                     process_data[k] @@
                     [result |-> IF wk[k].pc = "done" THEN wk[k].result ELSE <<>>,
                      error |-> wk[k].error]]
       IN  /\ process_data' = pd
           /\ IF RaiseIfError(pd)
              THEN MainExcept(<<>>, "one or more processes had errors", <<>>)
              ELSE /\ pc' = "get_results"
                   /\ UNCHANGED <<output, exit_status>>
    /\ UNCHANGED <<call, returned, MAX_PROCESSES, env_token, matched_repos, function, repo_queue,
                   wk, clones, has_results, results, inserted, removed, scanned,
                   clone_failed, precondition>>

\* `return get_results(process_data)` of execute_scans
ReturnResults ==
    /\ pc = "get_results"
    /\ results' = get_results(process_data)
    /\ has_results' = TRUE
    /\ pc' = "display_results"
    /\ UNCHANGED <<call, returned, MAX_PROCESSES, env_token, matched_repos, function,
                   process_data, repo_queue, wk, clones, output, exit_status,
                   inserted, removed, scanned, clone_failed, precondition>>

RECURSIVE FailedLines(_)
\* display_results' loop: one line per entry with a truthy report, in the
\* map's order, the report path made relative to the working directory
FailedLines(d) ==
    IF d = <<>> THEN <<>>
    ELSE IF Truthy(Head(d)[2])
         THEN <<Line("failed", Head(d)[1], Replace(Head(d)[2].s, HomeDir, <<".">>))>>
                  \o FailedLines(Tail(d))
         ELSE FailedLines(Tail(d))

display_results(d) ==
    IF \E k \in 1..Len(d) : Truthy(d[k][2])
    THEN <<Line("The following repos failed the gitleaks scan:", <<>>, <<>>)>>
             \o FailedLines(d)
    ELSE <<Line("All branches in all repos passed the gitleaks scan!", <<>>, <<>>)>>

\* display_results(results), then main returns: exit status 0
DisplayResults ==
    /\ pc = "display_results"
    /\ output' = output \o display_results(results)
    /\ exit_status' = 0
    /\ pc' = "exited"
    /\ UNCHANGED <<call, returned, MAX_PROCESSES, env_token, matched_repos, function,
                   process_data, repo_queue, wk, clones, has_results, results,
                   inserted, removed, scanned, clone_failed, precondition>>

\* ---------------------------------------------------------------- workers
\* What a worker has done for the repository it holds, in order: the branch
\* listing returned ("listing"), the line 'executing total of N commands'
\* ("total", with N as printed), the rmtree ("rmtree"), and one entry per
\* line 'executed command: ...' of execute_command ("clone", "checkout",
\* "gitleaks", with the branch).
Event(ev, arg) == [ev |-> ev, arg |-> arg]

\* as TotalLine, the clone not counted
TotalLine_NoClone(branches) == Str(Len(branches) * 2)

\* f'executing total of {len(branches) * 2 + 1} commands to scan repo ...'
TotalLine(branches) == Str(Len(branches) * 2 + 1)

\* the branch listing returned and the total logged, for a new repository
ListedLog(branches) ==
    <<Event("listing", <<>>), Event("total", TotalLine(branches))>>

\* as BranchAt, the listing walked from its end
BranchAt_Reversed(branches, i) == branches[Len(branches) + 1 - i]

\* `for branch in branches`: the branch of the i-th iteration
BranchAt(branches, i) == branches[i]

\* An exception leaves the worker function: the process ends with it.
Raise(w, l, err) == wk' = [wk EXCEPT ![w] = [l EXCEPT !.pc = "raised", !.error = err]]

\* as LoopNext, leaving the loop one branch early
LoopNext_OneShort(l, i, after) == IF i < Len(l.branches) THEN "checkout" ELSE after

\* where a worker goes after the statement at branch index i of its loop
LoopNext(l, i, after) == IF i <= Len(l.branches) THEN "checkout" ELSE after

\* shutil.rmtree(clone_dir, ignore_errors=True)
RmtreeStep(w) ==
    /\ clones' = clones \ {CloneDir(wk[w].repo.full_name)}
    /\ wk' = [wk EXCEPT ![w].pc = "clone",
                        ![w].log = Append(@, Event("rmtree", <<>>))]
    /\ UNCHANGED <<repo_queue, removed, scanned, clone_failed>>

\* execute_command(f'git clone {repo_ssh_url} {repo_name}', cwd=dirs['clones']);
\* the return code is dropped.  git refuses an existing destination.
CloneStep(w, after) ==
    LET l == wk[w]
        dir == CloneDir(l.repo.full_name)
    IN  \E o \in CloneOutcomes :
          /\ dir \in clones => (o.rc # 0 /\ o.dir)
          /\ LET r == ExecuteCommand(TRUE, o.rc)
             IN  IF r.raised # ""
                 THEN /\ Raise(w, l, r.raised)
                      /\ UNCHANGED <<clones, clone_failed>>
                 ELSE /\ clones' = IF o.dir THEN clones \cup {dir} ELSE clones
                      /\ clone_failed' = IF r.returncode # 0
                                         THEN clone_failed \cup {l.repo.full_name}
                                         ELSE clone_failed
                      /\ wk' = [wk EXCEPT ![w].i = 1,
                                          ![w].pc = LoopNext(l, 1, after),
                                          ![w].log = Append(@, Event("clone", <<>>))]
          /\ UNCHANGED <<repo_queue, removed, scanned>>

\* execute_command(f'git checkout -b {branch_name} origin/{branch_name}',
\* cwd=clone_dir); the return code is dropped
CheckoutStep(w) ==
    LET l == wk[w]
    IN  \E rc \in CheckoutCodes :
          LET r == ExecuteCommand(CloneDir(l.repo.full_name) \in clones, rc)
          IN  /\ IF r.raised # ""
                 THEN Raise(w, l, r.raised)
                 ELSE wk' = [wk EXCEPT ![w].pc = "scan",
                                       ![w].log = Append(@,
                                           Event("checkout",
                                                 BranchAt(l.branches, l.i).name))]
              /\ UNCHANGED <<repo_queue, clones, removed, scanned, clone_failed>>

\* exit_code = execute_command(f'gitleaks ... --report={report} ...',
\* cwd=clone_dir); result[key] = False if exit_code == 0 else report
ScanStep(w, after) ==
    LET l == wk[w]
        full_name == l.repo.full_name
        branch_name == BranchAt(l.branches, l.i).name
    IN  \E rc \in ScanCodes :
          LET r == ExecuteCommand(CloneDir(full_name) \in clones, rc)
          IN  /\ IF r.raised # ""
                 THEN /\ Raise(w, l, r.raised)
                      /\ UNCHANGED scanned
                 ELSE /\ wk' = [wk EXCEPT ![w] =
                            [l EXCEPT !.exit_code = r.returncode,
                                      !.result = DictSet(l.result,
                                          Key(full_name, branch_name),
                                          ScanValue(r.returncode,
                                                    Report(full_name, branch_name))),
                                      !.i = l.i + 1,
                                      !.pc = LoopNext(l, l.i + 1, after),
                                      !.log = Append(@, Event("gitleaks",
                                                              branch_name))]]
                      /\ scanned' = scanned \cup
                                        {<<full_name, branch_name, r.returncode>>}
              /\ UNCHANGED <<repo_queue, clones, removed, clone_failed>>

mainVars == <<call, returned, MAX_PROCESSES, env_token, pc, matched_repos, function, process_data,
              has_results, results, output, exit_status, inserted, precondition>>

\* scan_repo up to the branch listing: get_client() raises without the
\* token, client.get raises or returns the branches
ScanRepo_start(w) ==
    /\ function = "scan_repo" /\ wk[w].pc = "start"
    /\ LET l == [wk[w] EXCEPT !.repo = [ssh_url |-> process_data[w].ssh_url,
                                         full_name |-> process_data[w].full_name]]
       IN  IF GetClientRaises(env_token)
           THEN Raise(w, l, "ValueError")
           ELSE \E listed \in BOOLEAN :
                  IF listed
                  THEN wk' = [wk EXCEPT ![w] =
                           [l EXCEPT !.branches = BranchListing(l.repo.full_name),
                                     !.log = ListedLog(BranchListing(l.repo.full_name)),
                                     !.pc = "rmtree"]]
                  ELSE Raise(w, l, "branch listing raised")
    /\ UNCHANGED <<repo_queue, clones, removed, scanned, clone_failed>>
    /\ UNCHANGED mainVars

ScanRepo_rmtree(w) ==
    /\ function = "scan_repo" /\ wk[w].pc = "rmtree"
    /\ RmtreeStep(w)
    /\ UNCHANGED mainVars

\* after its last statement scan_repo returns result
ScanRepo_clone(w) ==
    /\ function = "scan_repo" /\ wk[w].pc = "clone"
    /\ CloneStep(w, "done")
    /\ UNCHANGED mainVars

ScanRepo_checkout(w) ==
    /\ function = "scan_repo" /\ wk[w].pc = "checkout"
    /\ CheckoutStep(w)
    /\ UNCHANGED mainVars

ScanRepo_scan(w) ==
    /\ function = "scan_repo" /\ wk[w].pc = "scan"
    /\ ScanStep(w, "done")
    /\ UNCHANGED mainVars

\* scan_repo_queue before its loop: create_dirs, get_client,
\* zfill = len(str(repo_queue.qsize())), result = {}, repo_count = 0
ScanRepoQueue_start(w) ==
    /\ function = "scan_repo_queue" /\ wk[w].pc = "start"
    /\ IF GetClientRaises(env_token)
       THEN Raise(w, wk[w], "ValueError")
       ELSE wk' = [wk EXCEPT ![w].zfill = Len(Str(Len(repo_queue))),
                             ![w].pc = "get"]
    /\ UNCHANGED <<repo_queue, clones, removed, scanned, clone_failed>>
    /\ UNCHANGED mainVars

\* as AfterEmpty, with Empty not caught
AfterEmpty_Uncaught == "raised"

\* `except Empty: break`, then `return result`
AfterEmpty == "done"

\* repo_queue.get(timeout=10): Empty once the wait ends with no item, which
\* ends the loop; else the repo got and repo_count += 1
ScanRepoQueue_get(w) ==
    /\ function = "scan_repo_queue" /\ wk[w].pc = "get"
    /\ IF repo_queue = <<>>
       THEN /\ wk' = [wk EXCEPT ![w].pc = AfterEmpty,
                                ![w].error = IF AfterEmpty = "raised"
                                             THEN "Empty" ELSE ""]
            /\ UNCHANGED <<repo_queue, removed>>
       ELSE LET g == QueueGet(repo_queue)
                l == [wk[w] EXCEPT !.repo = g.item,
                                    !.repo_count = wk[w].repo_count + 1,
                                    !.log = <<>>]
            IN  /\ repo_queue' = g.rest
                /\ removed' = Append(removed, g.item)
                /\ wk' = [wk EXCEPT ![w] = [l EXCEPT !.pc = "listing"]]
    /\ UNCHANGED <<clones, scanned, clone_failed>>
    /\ UNCHANGED mainVars

\* client.get of the branches of the repo got (a call over the network,
\* during which the other workers run), then the total line; or it raises
ScanRepoQueue_listing(w) ==
    /\ function = "scan_repo_queue" /\ wk[w].pc = "listing"
    /\ LET l == wk[w]
       IN  \E listed \in BOOLEAN :
             IF listed
             THEN wk' = [wk EXCEPT ![w] =
                      [l EXCEPT !.branches = BranchListing(l.repo.full_name),
                                !.log = ListedLog(BranchListing(l.repo.full_name)),
                                !.pc = "rmtree"]]
             ELSE Raise(w, l, "branch listing raised")
    /\ UNCHANGED <<repo_queue, clones, removed, scanned, clone_failed>>
    /\ UNCHANGED mainVars

ScanRepoQueue_rmtree(w) ==
    /\ function = "scan_repo_queue" /\ wk[w].pc = "rmtree"
    /\ RmtreeStep(w)
    /\ UNCHANGED mainVars

\* after the last statement of the loop body the worker gets the next repo
ScanRepoQueue_clone(w) ==
    /\ function = "scan_repo_queue" /\ wk[w].pc = "clone"
    /\ CloneStep(w, "get")
    /\ UNCHANGED mainVars

ScanRepoQueue_checkout(w) ==
    /\ function = "scan_repo_queue" /\ wk[w].pc = "checkout"
    /\ CheckoutStep(w)
    /\ UNCHANGED mainVars

\* as ScanRepoQueue_scan, but returning after the first repo with branches
ScanRepoQueue_scan_Return(w) ==
    /\ function = "scan_repo_queue" /\ wk[w].pc = "scan"
    /\ ScanStep(w, "done")
    /\ UNCHANGED mainVars

ScanRepoQueue_scan(w) ==
    /\ function = "scan_repo_queue" /\ wk[w].pc = "scan"
    /\ ScanStep(w, "get")
    /\ UNCHANGED mainVars

WorkerStep(w) ==
    \/ ScanRepo_start(w)
    \/ ScanRepo_rmtree(w)
    \/ ScanRepo_clone(w)
    \/ ScanRepo_checkout(w)
    \/ ScanRepo_scan(w)
    \/ ScanRepoQueue_start(w)
    \/ ScanRepoQueue_get(w)
    \/ ScanRepoQueue_listing(w)
    \/ ScanRepoQueue_rmtree(w)
    \/ ScanRepoQueue_clone(w)
    \/ ScanRepoQueue_checkout(w)
    \/ ScanRepoQueue_scan(w)

\* the steps of the run after get_repos and match_repos
RunNext ==
    \/ ExecuteScans
    \/ MP4ansiExecute
    \/ ReturnResults
    \/ DisplayResults
    \/ \E w \in Workers : ScanRepo_start(w)
    \/ \E w \in Workers : ScanRepo_rmtree(w)
    \/ \E w \in Workers : ScanRepo_clone(w)
    \/ \E w \in Workers : ScanRepo_checkout(w)
    \/ \E w \in Workers : ScanRepo_scan(w)
    \/ \E w \in Workers : ScanRepoQueue_start(w)
    \/ \E w \in Workers : ScanRepoQueue_get(w)
    \/ \E w \in Workers : ScanRepoQueue_listing(w)
    \/ \E w \in Workers : ScanRepoQueue_rmtree(w)
    \/ \E w \in Workers : ScanRepoQueue_clone(w)
    \/ \E w \in Workers : ScanRepoQueue_checkout(w)
    \/ \E w \in Workers : ScanRepoQueue_scan(w)

Next == GetRepos \/ RunNext

Spec == Init /\ [][Next]_vars

\* The runs on a repos file of distinct addresses, in which every process
\* that can take a step eventually takes one: the operating system schedules
\* each worker process and main, and every external command and API call
\* returns.
FairNext == GetReposOfFile \/ RunNext

FairSpec ==
    /\ Init
    /\ [][FairNext]_vars
    /\ \A w \in 1..MaxCap : WF_vars(w \in Workers /\ WorkerStep(w))
    /\ WF_vars(GetReposOfFile \/ ExecuteScans \/ MP4ansiExecute \/ ReturnResults
                    \/ DisplayResults)

\* ------------------------------------------- functions called on their own
\* get_repo_data and match_repos take no state of the run: each is also
\* called on its own, on every list of addresses and every pair of patterns.
Calls ==
    {[fn |-> "get_repo_data", ssh_urls |-> u, repos |-> <<>>,
      include |-> <<>>, exclude |-> <<>>] : u \in AddressLists}
    \cup {[fn |-> "match_repos", ssh_urls |-> <<>>, repos |-> get_repo_data(u),
           include |-> i, exclude |-> e] :
              u \in UrlLists, i \in MatchPatterns, e \in MatchPatterns}

PureInit ==
    /\ call \in Calls
    /\ returned = NotReturned
    /\ MAX_PROCESSES = MaxCap
    /\ env_token = TRUE
    /\ pc = "call"
    /\ matched_repos = <<>>
    /\ function = ""
    /\ process_data = <<>>
    /\ repo_queue = <<>>
    /\ wk = <<>>
    /\ clones = {}
    /\ has_results = FALSE
    /\ results = <<>>
    /\ output = <<>>
    /\ exit_status = 0
    /\ inserted = <<>>
    /\ removed = <<>>
    /\ scanned = {}
    /\ clone_failed = {}
    /\ precondition = ""

runVars == <<MAX_PROCESSES, env_token, pc, matched_repos, function, process_data,
             repo_queue, wk, clones, has_results, results, output, exit_status,
             inserted, removed, scanned, clone_failed, precondition>>

\* repos = get_repo_data(ssh_urls); ssh_url.split(':')[1] raises IndexError
\* on an address without ':'
Call_get_repo_data ==
    /\ call.fn = "get_repo_data" /\ ~returned.done
    /\ returned' = IF GetRepoDataRaises(call.ssh_urls)
                   THEN [done |-> TRUE, raised |-> "IndexError", value |-> <<>>]
                   ELSE [done |-> TRUE, raised |-> "",
                         value |-> get_repo_data(call.ssh_urls)]
    /\ UNCHANGED <<call, runVars>>

\* matched_repos = match_repos(repos, include, exclude), which echoes the
\* number of repos it kept
Call_match_repos ==
    /\ call.fn = "match_repos" /\ ~returned.done
    /\ LET matched == match_repos(call.repos, call.include, call.exclude)
       IN  /\ returned' = [done |-> TRUE, raised |-> "", value |-> matched]
           /\ output' = Append(output, MatchReposEcho(matched))
    /\ UNCHANGED <<call, MAX_PROCESSES, env_token, pc, matched_repos, function,
                   process_data, repo_queue, wk, clones, has_results, results,
                   exit_status, inserted, removed, scanned, clone_failed,
                   precondition>>

PureNext == Call_get_repo_data \/ Call_match_repos

PureSpec == PureInit /\ [][PureNext]_vars

\* ----------------------------------------------------------------- claims
Started == function # ""

AllTerminated == Started /\ \A w \in Workers : Terminated(w)

AllReturned == Started /\ \A w \in Workers : wk[w].pc = "done"

DigitValue(c) == CHOOSE d \in 0..9 : Digit(d) = c

RECURSIVE ToNat(_)
\* the number a string of digits denotes
ToNat(s) == IF s = <<>> THEN 0
            ELSE 10 * ToNat(SubSeq(s, 1, Len(s) - 1)) + DigitValue(s[Len(s)])

Count(seq, x) == Cardinality({k \in 1..Len(seq) : seq[k] = x})

Items(seq) == {seq[k] : k \in 1..Len(seq)}

\* C1: with N matched repositories and cap C, execute_scans builds N work
\* assignments, the k-th bound to the k-th repository and no queue filled,
\* when N <= C, and C work assignments holding the offsets 0..C-1, each
\* once, and the one queue filled with all N repositories, when N > C; one
\* process per assignment; one function for the whole run.
C1_Distribution ==
    Started =>
        LET N == Len(matched_repos)
            C == MAX_PROCESSES
        IN  /\ N >= 1
            /\ Len(wk) = Len(process_data)
            /\ N <= C =>
                 /\ function = "scan_repo"
                 /\ Len(process_data) = N
                 /\ \A k \in 1..N :
                      /\ process_data[k].ssh_url = matched_repos[k].ssh_url
                      /\ process_data[k].full_name = matched_repos[k].full_name
                 /\ inserted = <<>> /\ repo_queue = <<>>
            /\ N > C =>
                 /\ function = "scan_repo_queue"
                 /\ Len(process_data) = C
                 /\ {ToNat(process_data[k].offset) : k \in 1..C} = 0..(C - 1)
                 /\ \A k \in 1..C :
                      /\ Len(process_data[k].offset) = Len(Str(C))
                      /\ process_data[k].repo_queue = process_data[1].repo_queue
                 /\ inserted = matched_repos

C1_Witness ==
    /\ function = "scan_repo_queue"
    /\ MAX_PROCESSES = 2
    /\ Len(process_data) = 2
    /\ Len(repo_queue) = 3

RECURSIVE SumRepoCount(_)
\* the gets of the workers 1..n, by their own count (repo_count)
SumRepoCount(n) == IF n = 0 THEN 0 ELSE SumRepoCount(n - 1) + wk[n].repo_count

\* C2: in queue mode, under every interleaving, each repository put into the
\* queue is either still in it or was got exactly once (the gets and the
\* queue together are the puts, repo by repo) and each get was made by
\* exactly one worker (the workers' own counts add up to the gets); once
\* every worker has returned, nothing is left: as many gets as puts.
C2_NoLossNoDuplication ==
    function = "scan_repo_queue" =>
        /\ \A r \in Items(inserted) \cup Items(removed) \cup Items(repo_queue) :
             Count(removed, r) + Count(repo_queue, r) = Count(inserted, r)
        /\ SumRepoCount(Len(wk)) = Len(removed)
        /\ AllReturned => (repo_queue = <<>> /\ Len(removed) = Len(inserted))

C2_Witness ==
    /\ function = "scan_repo_queue"
    /\ AllReturned
    /\ Len(inserted) = 3
    /\ Len(wk) = 2
    /\ \A w \in Workers : wk[w].repo_count >= 1

\* C3 as stated: in queue mode, once every worker has terminated, the queue
\* is empty.
C3_Original ==
    (function = "scan_repo_queue" /\ AllTerminated) => Len(repo_queue) = 0

\* C3, amended: in queue mode, once every worker has terminated and at least
\* one of them has returned (has not raised), the queue is empty.
C3_QueueDrained ==
    (/\ function = "scan_repo_queue"
     /\ AllTerminated
     /\ \E w \in Workers : wk[w].pc = "done") => Len(repo_queue) = 0

C3_Witness ==
    /\ function = "scan_repo_queue"
    /\ AllTerminated
    /\ \E w \in Workers : wk[w].pc = "done" /\ wk[w].repo_count >= 1
    /\ \E w \in Workers : wk[w].pc = "raised"
    /\ Len(inserted) = 3
    /\ Len(repo_queue) = 0

\* every work assignment has its process's result
HasPartialMaps ==
    Started /\ \A k \in 1..Len(process_data) : "result" \in DOMAIN process_data[k]

RECURSIVE SumPartialCounts(_)
SumPartialCounts(n) ==
    IF n = 0 THEN 0 ELSE SumPartialCounts(n - 1) + Len(process_data[n].result)

\* the partial maps share no key; the returned map has as many keys as the
\* partial maps together, each with the value its partial map gives it
DisjointUnion ==
    /\ \A j, k \in 1..Len(process_data) :
         j # k => DictKeys(process_data[j].result)
                      \cap DictKeys(process_data[k].result) = {}
    /\ has_results =>
         /\ Len(results) = SumPartialCounts(Len(process_data))
         /\ \A k \in 1..Len(process_data) :
              \A key \in DictKeys(process_data[k].result) :
                 /\ DictHas(results, key)
                 /\ DictGet(results, key) = DictGet(process_data[k].result, key)

DistinctFullNames ==
    \A j, k \in 1..Len(matched_repos) :
        j # k => matched_repos[j].full_name # matched_repos[k].full_name

\* C4 as stated: for any list of matched repositories, the partial maps of
\* two distinct work assignments share no key and the merge is a disjoint
\* union.
C4_Original == HasPartialMaps => DisjointUnion

\* C4, amended: the same, for any list of matched repositories whose full
\* names are pairwise distinct.
C4_DisjointUnion == (HasPartialMaps /\ DistinctFullNames) => DisjointUnion

C4_Witness ==
    /\ HasPartialMaps
    /\ has_results
    /\ DistinctFullNames
    /\ function = "scan_repo_queue"
    /\ \E j, k \in 1..Len(process_data) :
         j # k /\ process_data[j].result # <<>> /\ process_data[k].result # <<>>

\* C5: in both modes, a scanned branch is recorded under the key
\* '<owner>/<name>:<branch>' as False when the scan's exit code is 0 and as
\* the report path of that repository and branch when it is not (whatever
\* the nonzero code, whatever the clone and the checkout returned): each
\* worker's latest scan, whose exit code it still holds, is so recorded.
C5_ExitCodeMapping ==
    \A w \in Workers :
        (wk[w].i > 1 /\ wk[w].pc \in {"checkout", "scan", "get", "done"}) =>
              LET full_name == wk[w].repo.full_name
                  branch_name == wk[w].branches[wk[w].i - 1].name
                  key == full_name \o <<":">> \o branch_name
              IN  /\ DictHas(wk[w].result, key)
                  /\ wk[w].exit_code = 0 => DictGet(wk[w].result, key) = PyFalse
                  /\ wk[w].exit_code # 0 =>
                         DictGet(wk[w].result, key)
                             = PyStr(Report(full_name, branch_name))
                  /\ \A c \in {-9, 1, 2, 128, 255} :
                         ScanValue(c, Report(full_name, branch_name))
                             = PyStr(Report(full_name, branch_name))

C5_Witness ==
    \E w \in Workers :
        /\ wk[w].repo.full_name \in clone_failed
        /\ wk[w].pc = "done"
        /\ \E j, k \in 1..Len(wk[w].result) :
             wk[w].result[j][2] = PyFalse /\ Truthy(wk[w].result[k][2])

\* C6: a queue-mode worker whose get ends with Empty leaves its loop and
\* returns the map it has accumulated, without raising; and, every command
\* and API call returning, every queue-mode worker eventually terminates.
C6_EmptyTermination ==
    /\ [][\A w \in Workers :
            (/\ function = "scan_repo_queue"
             /\ wk[w].pc = "get"
             /\ repo_queue = <<>>
             /\ wk'[w] # wk[w]) =>
                /\ wk'[w].pc = "done"
                /\ wk'[w].error = ""
                /\ wk'[w].result = wk[w].result]_vars
    /\ (function = "scan_repo_queue") ~> AllTerminated

C6_Witness ==
    /\ function = "scan_repo_queue"
    /\ Len(wk) = 2
    /\ wk[1].pc = "done" /\ wk[1].repo_count = 0 /\ wk[1].result = <<>>
    /\ wk[2].pc = "done" /\ wk[2].repo_count = 3 /\ Len(wk[2].result) >= 2

NothingSpawned ==
    /\ function = "" /\ process_data = <<>> /\ wk = <<>>
    /\ repo_queue = <<>> /\ inserted = <<>> /\ removed = <<>>
    /\ clones = {} /\ scanned = {} /\ clone_failed = {}
    /\ ~has_results

ErrorExit ==
    /\ pc = "exited"
    /\ exit_status # 0
    /\ output # <<>>
    /\ \A k \in 1..Len(output) :
         (SubSeq(output[k].text, 1, 6) = "Error:") <=> (k = Len(output))

\* C7: when the credential is missing, the input file is unreadable or the
\* matched repository set is empty, no work assignment is built, no queue is
\* filled, no process is started and no command is executed, at any time, and
\* the run ends with an error.
C7_PreconditionsFailFast ==
    /\ (~env_token \/ precondition # "") => NothingSpawned
    /\ (~env_token /\ pc # "main") => (ErrorExit /\ precondition = "credential")
    /\ precondition # "" => ErrorExit
    /\ (matched_repos = <<>> /\ pc \notin {"main", "execute_scans"}) =>
           (ErrorExit /\ NothingSpawned)

C7_Witness ==
    /\ env_token
    /\ precondition = "empty"
    /\ pc = "exited"
    /\ exit_status = 255
    /\ NothingSpawned

SomeWorkerRaised == \E w \in Workers : wk[w].pc = "raised"

\* C8: once a worker has raised, execute_scans returns no result map,
\* display_results is not reached, and the process ends with a nonzero exit
\* status and the one error message.
C8_WorkerFaultIsFatal ==
    SomeWorkerRaised =>
        /\ ~has_results /\ results = <<>>
        /\ pc \in {"mp_execute", "exited"}
        /\ pc = "exited" => ErrorExit

C8_Witness ==
    /\ pc = "exited"
    /\ exit_status = 255
    /\ \E w \in Workers :
         wk[w].pc = "raised" /\ wk[w].error = "branch listing raised"
    /\ \E w \in Workers : wk[w].pc = "done" /\ wk[w].result # <<>>

\* the keys of the entries printed as failed
PrintedFailed == {output[k].scan : k \in {j \in 1..Len(output) : output[j].text = "failed"}}

\* C9: a nonzero return code of the clone, of a checkout or of the scan
\* tool is no error: a command whose working directory exists never makes
\* its worker raise, whatever it returns; and a run in which no worker has
\* raised ends with every worker returned, the results aggregated and
\* displayed and exit status 0, the failed branches being exactly the
\* entries printed in the summary.
C9_ScanOutcomesAreData ==
    /\ [][\A w \in Workers :
            (/\ wk[w].pc \in {"clone", "checkout", "scan"}
             /\ (wk[w].pc = "clone" \/ CloneDir(wk[w].repo.full_name) \in clones))
            => wk'[w].pc # "raised"]_vars
    /\ []((pc = "exited" /\ Started /\ ~SomeWorkerRaised) =>
            /\ AllReturned
            /\ has_results
            /\ exit_status = 0
            /\ \A k \in 1..Len(output) : SubSeq(output[k].text, 1, 6) # "Error:"
            /\ PrintedFailed = {key \in DictKeys(results) :
                                   DictGet(results, key) # PyFalse})

C9_Witness ==
    /\ pc = "exited"
    /\ exit_status = 0
    /\ clone_failed # {}
    /\ \E key \in DictKeys(results) : DictGet(results, key) # PyFalse
    /\ \E key \in DictKeys(results) : DictGet(results, key) = PyFalse
    /\ Len(wk) = 2

\* the returned map has one entry for each (repository, branch) the scan
\* tool ran on, and no other
EntriesAreScans ==
    /\ DictKeys(results) = {p[1] \o <<":">> \o p[2] : p \in scanned}
    /\ Len(results) = Cardinality({<<p[1], p[2]>> : p \in scanned})

\* C10 as stated: the final map has exactly one entry per (repository,
\* branch) scanned, and none for a repository whose branch listing or clone
\* failed.
C10_Original ==
    has_results =>
        /\ EntriesAreScans
        /\ \A w \in Workers : wk[w].error # "branch listing raised"
        /\ \A full_name \in clone_failed :
             \A key \in DictKeys(results) : ~StartsWith(key, full_name \o <<":">>)

\* C10, amended: the final map has exactly one entry per (repository,
\* branch) scanned; a failed branch listing leaves no final map at all; a
\* clone that returned nonzero does not keep the repository's scanned
\* branches out of the map.
C10_OneEntryPerScan ==
    /\ has_results => EntriesAreScans
    /\ (\E w \in Workers : wk[w].error = "branch listing raised") =>
           (~has_results /\ results = <<>>)

C10_Witness ==
    /\ has_results
    /\ \E full_name \in clone_failed :
         \E key \in DictKeys(results) : StartsWith(key, full_name \o <<":">>)
    /\ Len(results) >= 3

\* a worker that holds a repository it is cloning or scanning
Active(w) == wk[w].pc \in {"rmtree", "clone", "checkout", "scan"}

\* C11: whatever the number N of repositories, at every moment at most C
\* repositories are being cloned or scanned: in direct mode there are N <= C
\* workers, in queue mode exactly C, each working on the one repository it
\* holds; and a queue-mode worker takes a repository from the queue only
\* when it holds none in progress, one at a time.
C11_BoundedConcurrency ==
    /\ [](Started =>
            /\ Len(wk) <= MAX_PROCESSES
            /\ Cardinality({w \in Workers : Active(w)}) <= MAX_PROCESSES
            /\ function = "scan_repo" =>
                   (Len(wk) = Len(matched_repos) /\ removed = <<>>)
            /\ function = "scan_repo_queue" =>
                   (Len(wk) = MAX_PROCESSES /\ Len(matched_repos) > MAX_PROCESSES))
    /\ [][\A w \in Workers :
            (w \in DOMAIN wk' /\ wk'[w].repo_count # wk[w].repo_count) =>
                /\ ~Active(w) /\ wk[w].pc = "get"
                /\ wk'[w].repo_count = wk[w].repo_count + 1
                /\ Len(repo_queue') = Len(repo_queue) - 1
                /\ wk'[w].repo = Head(repo_queue)
                /\ \A v \in Workers \ {w} : wk'[v] = wk[v]]_vars

C11_Witness ==
    /\ function = "scan_repo_queue"
    /\ MAX_PROCESSES = 2
    /\ \A w \in Workers : Active(w)
    /\ wk[1].repo # wk[2].repo
    /\ Len(repo_queue) = 1

\* C12: match_repos keeps a repository if and only if its full name matches
\* the include pattern and does not match the exclude pattern, an empty
\* include pattern matching every name and an empty exclude pattern none;
\* the kept repositories are the input's, in the input's order (the result
\* is the input with the other repositories left out).
C12_MatchRepos ==
    (call.fn = "match_repos" /\ returned.done) =>
        LET repos == call.repos
            kept == returned.value
            IncludeMatches(name) ==
                call.include = <<>> \/ ReMatch(call.include, name)
            ExcludeMatches(name) ==
                call.exclude # <<>> /\ ReMatch(call.exclude, name)
        IN  /\ returned.raised = ""
            /\ \A r \in Items(repos) :
                   r \in Items(kept) <=>
                       (IncludeMatches(r.full_name) /\ ~ExcludeMatches(r.full_name))
            /\ Items(kept) \subseteq Items(repos)
            /\ kept = SelectSeq(repos, LAMBDA r : r \in Items(kept))

C12_Witness ==
    /\ call.fn = "match_repos"
    /\ returned.done
    /\ call.include = <<"o", "/">>
    /\ call.exclude = <<"^", "o", "/", "a">>
    /\ Len(call.repos) = 3
    /\ Cardinality(Items(call.repos)) = 3
    /\ Len(returned.value) = 1
    /\ returned.value[1].full_name = <<"o", "/", "c">>

\* the report paths a worker writes for the repository it holds
ReportPaths(w) ==
    {Report(wk[w].repo.full_name, wk[w].branches[k].name) :
        k \in 1..Len(wk[w].branches)}

\* C13: when the repositories of the run have pairwise distinct full names,
\* no two workers hold, at any moment, repositories with the same clone
\* directory or with a report path in common.
C13_Original ==
    DistinctFullNames =>
        \A v, w \in Workers :
            (v # w /\ Active(v) /\ Active(w)) =>
                /\ CloneDir(wk[v].repo.full_name) # CloneDir(wk[w].repo.full_name)
                /\ ReportPaths(v) \cap ReportPaths(w) = {}

\* the keys '<owner>/<name>:<branch>' of a repository: one per branch of its
\* branch listing
KeysOf(full_name) ==
    {full_name \o <<":">> \o BranchListing(full_name)[k].name :
        k \in 1..Len(BranchListing(full_name))}

ExpectedKeys == UNION {KeysOf(matched_repos[k].full_name) : k \in 1..Len(matched_repos)}

\* C14: in a run where no worker raises and the matched repositories are
\* pairwise distinct, in both modes and under every interleaving, the keys of
\* the final map are exactly the '<owner>/<name>:<branch>' of every matched
\* repository and every branch of its listing; a worker that has returned
\* holds every branch of each repository it holds a branch of, and nothing
\* but branches of matched repositories (in direct mode: exactly the
\* branches of its one repository).
C14_Coverage ==
    (DistinctFullNames /\ ~SomeWorkerRaised) =>
        /\ has_results => DictKeys(results) = ExpectedKeys
        /\ \A w \in Workers :
              wk[w].pc = "done" =>
                 /\ DictKeys(wk[w].result) \subseteq ExpectedKeys
                 /\ \A k \in 1..Len(matched_repos) :
                       LET keys == KeysOf(matched_repos[k].full_name)
                       IN  \/ keys \subseteq DictKeys(wk[w].result)
                           \/ keys \cap DictKeys(wk[w].result) = {}
                 /\ function = "scan_repo" =>
                       DictKeys(wk[w].result) = KeysOf(matched_repos[w].full_name)
        /\ AllReturned =>
              UNION {DictKeys(wk[w].result) : w \in Workers} = ExpectedKeys

C14_Witness ==
    /\ has_results
    /\ DistinctFullNames
    /\ function = "scan_repo_queue"
    /\ Len(results) = 3
    /\ \A w \in Workers : wk[w].result # <<>>

\* C15: every put of the run is made before any worker exists, so that once
\* the workers run nothing remains to be inserted; a worker's get ends with
\* Empty (the worker leaves its loop) only when the queue holds no item and
\* every matched repository has been inserted; and an empty queue stays
\* empty, so the worker did not leave a queue that fills again.
C15_NoFalseEmpty ==
    /\ [][inserted' # inserted => (wk = <<>> /\ inserted' = matched_repos)]_vars
    /\ [][\A w \in Workers :
            (/\ function = "scan_repo_queue"
             /\ wk[w].pc = "get"
             /\ wk'[w].pc \in {"done", "raised"}
             /\ wk'[w].repo_count = wk[w].repo_count) =>
                /\ repo_queue = <<>>
                /\ inserted = matched_repos
                /\ Len(removed) = Len(inserted)]_vars
    /\ [][(Started /\ repo_queue = <<>>) => repo_queue' = <<>>]_vars

C15_Witness ==
    /\ function = "scan_repo_queue"
    /\ Len(inserted) = 3
    /\ repo_queue = <<>>
    /\ wk[1].pc = "done" /\ wk[1].repo_count = 1
    /\ wk[2].pc = "scan" /\ wk[2].repo_count = 2

\* the count signals of a log: its 'executed command' entries
Commands(log) ==
    SelectSeq(log, LAMBDA e : e.ev \in {"clone", "checkout", "gitleaks"})

\* C16: for every repository a worker holds, in both modes, the worker's
\* steps are, in this order: the branch listing, one total line declaring
\* 2 * branchCount + 1, the removal of the clone directory, the clone, then
\* the commands of the branches; nothing is removed, cloned or executed
\* before the listing and the total; and once the repository is completed
\* the commands executed for it are as many as the total declared.
C16_OrderAndTotal ==
    \A w \in Workers :
        LET log == wk[w].log
            n == Len(wk[w].branches)
        IN  /\ Active(w) => log # <<>>
            /\ log # <<>> =>
                 /\ Len(log) >= 2
                 /\ log[1].ev = "listing"
                 /\ log[2] = Event("total", Str(2 * n + 1))
                 /\ \A k \in 3..Len(log) : log[k].ev \notin {"listing", "total"}
                 /\ Len(log) >= 3 => log[3].ev = "rmtree"
                 /\ Len(log) >= 4 => log[4].ev = "clone"
                 /\ \A k \in 5..Len(log) : log[k].ev \in {"checkout", "gitleaks"}
                 /\ Len(Commands(log)) <= ToNat(log[2].arg)
                 /\ wk[w].pc \in {"get", "done"} =>
                        /\ Len(Commands(log)) = ToNat(log[2].arg)
                        /\ Len(Commands(log)) = 2 * n + 1

C16_Witness ==
    /\ function = "scan_repo_queue"
    /\ \E w \in Workers :
         /\ wk[w].pc = "get"
         /\ wk[w].repo_count = 2
         /\ Len(wk[w].log) = 8
         /\ wk[w].log[2].arg = <<"5">>
    /\ \E w \in Workers :
         wk[w].pc = "done" /\ wk[w].log # <<>> /\ wk[w].log[2].arg = <<"1">>

\* C17: within one worker and one repository, the commands after the clone
\* are, in this order, the checkout and then the scan of the first branch of
\* the listing, the checkout and then the scan of the second, and so on (no
\* branch's commands come between another's); every scan executed has its
\* result recorded, so that when a checkout is executed the results of all
\* the branches before it are in the worker's map; and the map of a
\* direct-mode worker holds its keys in listing order.
C17_BranchOrder ==
    \A w \in Workers :
        LET log == wk[w].log
            cmds == SubSeq(log, 5, Len(log))
            branches == wk[w].branches
            full_name == wk[w].repo.full_name
        IN  /\ Len(log) >= 5 =>
                 /\ Len(cmds) <= 2 * Len(branches)
                 /\ \A j \in 1..Len(cmds) :
                       /\ cmds[j] = Event(IF j % 2 = 1 THEN "checkout" ELSE "gitleaks",
                                          branches[(j + 1) \div 2].name)
                       /\ \A k \in 1..(j \div 2) :
                             DictHas(wk[w].result,
                                     full_name \o <<":">> \o branches[k].name)
            /\ function = "scan_repo" =>
                 /\ Len(wk[w].result) = Len(cmds) \div 2
                 /\ \A k \in 1..Len(wk[w].result) :
                       wk[w].result[k][1] = full_name \o <<":">> \o branches[k].name

C17_Witness ==
    /\ function = "scan_repo"
    /\ \E w \in Workers :
         /\ wk[w].pc = "done"
         /\ Len(wk[w].log) = 8
         /\ wk[w].log[5] = Event("checkout", <<"m">>)
         /\ wk[w].log[8] = Event("gitleaks", <<"d">>)
         /\ Len(wk[w].result) = 2

\* the text after the first occurrence of the character sep
AfterFirst(s, sep) ==
    LET i == CHOOSE k \in 1..Len(s) : s[k] = sep /\ \A j \in 1..(k - 1) : s[j] # sep
    IN  SubSeq(s, i + 1, Len(s))

\* s without a trailing '.git'
StripGitSuffix(s) ==
    IF Len(s) >= 4 /\ SubSeq(s, Len(s) - 3, Len(s)) = <<".", "g", "i", "t">>
    THEN SubSeq(s, 1, Len(s) - 4)
    ELSE s

\* C18: for every address (with a ':'), get_repo_data gives as owner the
\* first '/'-separated segment of the text after the first ':' and as name
\* the last '/'-separated segment of the address with only a trailing '.git'
\* stripped, any other '.git' inside the name being kept.
C18_Original ==
    (call.fn = "get_repo_data" /\ returned.done /\ returned.raised = "") =>
        /\ Len(returned.value) = Len(call.ssh_urls)
        /\ \A i \in 1..Len(call.ssh_urls) :
              LET ssh_url == call.ssh_urls[i]
                  owner == Split(AfterFirst(ssh_url, ":"), "/")[1]
                  segments == Split(ssh_url, "/")
                  name == StripGitSuffix(segments[Len(segments)])
              IN  /\ returned.value[i].ssh_url = ssh_url
                  /\ returned.value[i].full_name = owner \o <<"/">> \o name

\* C19: in queue mode, for pairwise distinct matched repositories, the map
\* execute_scans returns is a function of the matched repositories, their
\* branch listings and the exit code of each scan alone: it has one entry
\* per branch of each matched repository, whose value is False when that
\* branch's scan returned 0 and its report path otherwise, whichever worker
\* got the repository and in whatever order the workers ended; so two
\* interleavings with the same outcomes return the same map.
C19_InterleavingIndependent ==
    (function = "scan_repo_queue" /\ DistinctFullNames /\ has_results) =>
        /\ DictKeys(results) = ExpectedKeys
        /\ Len(results) = Cardinality(ExpectedKeys)
        /\ {p[1] \o <<":">> \o p[2] : p \in scanned} = ExpectedKeys
        /\ \A p, q \in scanned : (p[1] = q[1] /\ p[2] = q[2]) => p[3] = q[3]
        /\ \A p \in scanned :
              DictGet(results, p[1] \o <<":">> \o p[2]) =
                  IF p[3] = 0 THEN PyFalse ELSE PyStr(Report(p[1], p[2]))

C19_Witness ==
    /\ function = "scan_repo_queue"
    /\ DistinctFullNames
    /\ has_results
    /\ Len(results) = 3
    /\ Len(wk) = 2
    /\ \A w \in Workers : wk[w].result # <<>>
    /\ results[1][1] = <<"o", "-", "a", "/", "b", ":", "m">>
    /\ matched_repos[1].full_name = <<"o", "/", "a", "-", "b">>
    /\ \E p, q \in scanned : p[3] = 0 /\ q[3] # 0

====
